---- MODULE Spec2Model ----
(***************************************************************************)
(* pocket-tagger.py: OAuth handshake with the bookmarking service, fetch   *)
(* of the unread untagged articles, one LLM classification and one         *)
(* tags_add request per article.                                           *)
(*                                                                         *)
(* Text is a sequence of one-character strings.  A Python value is a       *)
(* record tagged by its type (t); a dict is the sequence of its            *)
(* <<key, value>> pairs in insertion order.                                *)
(***************************************************************************)
EXTENDS Integers, Sequences, FiniteSets, TLC

VARIABLES
  pc,               \* position of main(): the call about to be made
  code,             \* authenticate_pocket: code
  access_token,     \* main: access_token
  unread_articles,  \* main: unread_articles
  idx,              \* main: position of the for loop in unread_articles
  suggested_tags,   \* main: suggested_tags
  effects,          \* what left the process so far: requests, browser, prompt
  calls,            \* invocations of get_tag_suggestions / add_tags_to_article
  last,             \* the call made by the most recent step and its outcome
  tpc,              \* classifier alone: "call" or "returned"
  llm_response,     \* classifier alone: outcome of the chat-completion request
  valid_tags        \* classifier alone: list returned by get_tag_suggestions

vars == << pc, code, access_token, unread_articles, idx, suggested_tags,
           effects, calls, last, tpc, llm_response, valid_tags >>

mainVars == << pc, code, access_token, unread_articles, idx, suggested_tags,
               effects, calls, last >>

tagVars == << tpc, llm_response, valid_tags >>

-----------------------------------------------------------------------------
(* Bounds *)

MaxArticles == 2

MaxParts == 6

-----------------------------------------------------------------------------
(* Python values *)

PyNone == [t |-> "none"]

PyStr(s) == [t |-> "str", s |-> s]

PyInt(n) == [t |-> "int", n |-> n]

PyBool(b) == [t |-> "bool", b |-> b]

PyDict(items) == [t |-> "dict", items |-> items]

PyList(items) == [t |-> "list", items |-> items]

\* bool(v): None, "", 0, False, {} and [] are falsy
Truthy(v) ==
  CASE v.t = "none" -> FALSE
    [] v.t = "str"  -> v.s # ""
    [] v.t = "int"  -> v.n # 0
    [] v.t = "bool" -> v.b
    [] v.t = "dict" -> Len(v.items) > 0
    [] v.t = "list" -> Len(v.items) > 0

\* key in d, for a dict d
HasKey(d, key) == \E i \in 1..Len(d.items) : d.items[i][1] = key

\* d[key], for a dict d that has the key
Lookup(d, key) ==
  d.items[CHOOSE i \in 1..Len(d.items) : d.items[i][1] = key][2]

\* d.get(key, default)
DictGet(d, key, default) == IF HasKey(d, key) THEN Lookup(d, key) ELSE default

Return(v) == [kind |-> "return", value |-> v, exc |-> ""]

Raise(e) == [kind |-> "raise", value |-> PyNone, exc |-> e]

-----------------------------------------------------------------------------
(* Text *)

Whitespace == {" ", "\n", "\t"}

RECURSIVE LStrip(_)
LStrip(s) ==
  IF s # <<>> /\ Head(s) \in Whitespace THEN LStrip(Tail(s)) ELSE s

RECURSIVE RStrip(_)
RStrip(s) ==
  IF s # <<>> /\ s[Len(s)] \in Whitespace
  THEN RStrip(SubSeq(s, 1, Len(s) - 1))
  ELSE s

\* str.strip()
Strip(s) == RStrip(LStrip(s))

\* str.split(','): one part more than there are commas, empty parts kept
RECURSIVE Split(_)
Split(s) ==
  IF \A i \in 1..Len(s) : s[i] # ","
  THEN << s >>
  ELSE LET i == CHOOSE k \in 1..Len(s) :
                  s[k] = "," /\ \A j \in 1..(k - 1) : s[j] # ","
       IN  << SubSeq(s, 1, i - 1) >> \o Split(SubSeq(s, i + 1, Len(s)))

-----------------------------------------------------------------------------
(* Constants of the program *)

REDIRECT_URL == "localhost"

TAG_LIST ==
  << <<"a","i","/","m","l">>,
     <<"a","m","a","z","o","n">>,
     <<"a","p","p","l","e">>,
     <<"a","u","t","o">>,
     <<"b","o","o","k","s">>,
     <<"b","u","s","i","n","e","s","s">>,
     <<"d","e","s","i","g","n">>,
     <<"d","e","v">>,
     <<"d","o","g","s">>,
     <<"e","d","u">>,
     <<"f","a","c","e","b","o","o","k">>,
     <<"f","u","n","n","y">>,
     <<"f","u","t","u","r","e">>,
     <<"g","o","o","g","l","e">>,
     <<"h","a","r","v","a","r","d">>,
     <<"h","i","s","t","o","r","y">>,
     <<"h","o","c","k","e","y">>,
     <<"l","i","f","e">>,
     <<"l","o","n","g","r","e","a","d","s">>,
     <<"m","a","t","h">>,
     <<"m","e","d","i","a">>,
     <<"m","i","c","r","o","s","o","f","t">>,
     <<"m","i","s","c">>,
     <<"m","u","s","i","c">>,
     <<"n","e","w","s">>,
     <<"p","a","r","e","n","t","i","n","g">>,
     <<"p","o","l","i","c","y">>,
     <<"r","e","v","i","e","w","s">>,
     <<"s","c","i","e","n","c","e">>,
     <<"s","e","a","t","t","l","e">>,
     <<"s","e","c","u","r","i","t","y">>,
     <<"s","f","b","a","y">>,
     <<"s","p","o","r","t","s">>,
     <<"t","e","c","h">>,
     <<"t","v">>,
     <<"v","i","d","e","o"," ","g","a","m","e","s">>,
     <<"v","i","d","e","o","s">>,
     <<"w","o","r","k">> >>

\* tag in TAG_LIST
InTagList(tag) == \E i \in 1..Len(TAG_LIST) : TAG_LIST[i] = tag

-----------------------------------------------------------------------------
(* Tag classifier *)

\* The outcome of client.chat.completions.create: the request raised, the
\* response has no choice, the message has no content, or a reply text.
LLMException == [kind |-> "exception", content |-> <<>>]

LLMNoChoices == [kind |-> "no_choices", content |-> <<>>]

LLMNoContent == [kind |-> "no_content", content |-> <<>>]

LLMText(s) == [kind |-> "text", content |-> s]

\* [tag.strip() for tag in suggested_tags_text.split(',')]
SuggestedTags(text) ==
  LET parts == Split(Strip(text))
  IN  [i \in 1..Len(parts) |-> Strip(parts[i])]

ValidTagsUnfiltered(suggested) == suggested

\* [tag for tag in suggested_tags if tag in TAG_LIST]
ValidTags(suggested) == SelectSeq(suggested, InTagList)

\* The try block of get_tag_suggestions: the request, choices[0] and
\* content.strip() may raise
TagSuggestionsRequest(resp) ==
  CASE resp.kind = "exception"  -> Raise("APIError")
    [] resp.kind = "no_choices" -> Raise("IndexError")
    [] resp.kind = "no_content" -> Raise("AttributeError")
    [] resp.kind = "text"       -> Return(ValidTags(SuggestedTags(resp.content)))

get_tag_suggestionsNoExcept(resp) == TagSuggestionsRequest(resp)

\* get_tag_suggestions(article): except Exception: return []
get_tag_suggestions(resp) ==
  LET r == TagSuggestionsRequest(resp)
  IN  IF r.kind = "raise" THEN Return(<< >>) ELSE r

-----------------------------------------------------------------------------
(* HTTP responses as requests.post hands them over *)

\* response.text: nothing, whitespace only, text that is no JSON, or JSON
EmptyBody == [text |-> "empty", value |-> PyNone]

BlankBody == [text |-> "blank", value |-> PyNone]

GarbageBody == [text |-> "garbage", value |-> PyNone]

JsonBody(v) == [text |-> "json", value |-> v]

\* requests.post raised instead of returning a response
ConnError ==
  [kind |-> "conn_error", status |-> 0, xerror |-> PyNone, body |-> EmptyBody]

\* xerror is response.headers.get("X-Error"): None when the header is absent
HttpResponse(status, xerror, body) ==
  [kind |-> "http", status |-> status, xerror |-> xerror, body |-> body]

NoResponse ==
  [kind |-> "none", status |-> 0, xerror |-> PyNone, body |-> EmptyBody]

\* response.raise_for_status() raises HTTPError for 4xx and 5xx
RaisesForStatus(resp) == 400 <= resp.status /\ resp.status < 600

\* response.json()
ResponseJson(resp) ==
  IF resp.body.text = "json"
  THEN Return(resp.body.value)
  ELSE Raise("JSONDecodeError")

\* v[key]
Subscript(v, key) ==
  IF v.t = "dict"
  THEN IF HasKey(v, key) THEN Return(Lookup(v, key)) ELSE Raise("KeyError")
  ELSE Raise("TypeError")

\* post(url, data), as a function of what requests.post gives
post(resp) ==
  IF resp.kind = "conn_error"
  THEN Raise("ConnectionError")
  ELSE IF Truthy(resp.xerror)
       THEN IF RaisesForStatus(resp)
            THEN Raise("HTTPError")
            ELSE Return(PyNone)
       ELSE IF resp.body.text \in {"garbage", "json"}
            THEN ResponseJson(resp)
            ELSE Return(PyDict(<< >>))

-----------------------------------------------------------------------------
(* OAuth flow *)

\* request_code()
request_code(resp) ==
  LET response == post(resp)
  IN  IF response.kind = "raise"
      THEN response
      ELSE Subscript(response.value, "code")

\* request_access_token(code)
request_access_token(resp) ==
  LET response == post(resp)
  IN  IF response.kind = "raise"
      THEN response
      ELSE Subscript(response.value, "access_token")

\* The URL request_authorization(code) opens
AuthorizationUrl(c) == [request_token |-> c, redirect_uri |-> REDIRECT_URL]

-----------------------------------------------------------------------------
(* Article fetcher *)

UnfilteredArticles(items) == items

\* The for loop of get_unread_articles over data["list"].items()
RECURSIVE UntaggedArticles(_)
UntaggedArticles(items) ==
  IF items = << >>
  THEN << >>
  ELSE LET article == Head(items)[2]
       IN  IF ~Truthy(DictGet(article, "tags", PyNone))
           THEN << Head(items) >> \o UntaggedArticles(Tail(items))
           ELSE UntaggedArticles(Tail(items))

\* "list" in data
ListInData(data) ==
  CASE data.t = "dict" -> Return(PyBool(HasKey(data, "list")))
    [] data.t = "list" ->
         Return(PyBool(\E i \in 1..Len(data.items) :
                          /\ data.items[i].t = "str"
                          /\ data.items[i].s = "list"))
    [] OTHER -> Raise("TypeError")

\* get_unread_articles(token): the list of (article_id, article) it returns
get_unread_articles(resp) ==
  IF resp.kind = "conn_error"
  THEN Raise("ConnectionError")
  ELSE LET data == ResponseJson(resp)
       IN  IF data.kind = "raise"
           THEN data
           ELSE LET has == ListInData(data.value)
                IN  IF has.kind = "raise"
                    THEN has
                    ELSE IF ~has.value.b
                         THEN Return(<< >>)
                         ELSE LET list == Subscript(data.value, "list")
                              IN  IF list.kind = "raise"
                                  THEN list
                                  ELSE IF list.value.t # "dict"
                                       THEN Raise("AttributeError")
                                       ELSE Return(UntaggedArticles(list.value.items))

-----------------------------------------------------------------------------
(* Tag writer *)

\* The try block of add_tags_to_article
TagsAddRequest(resp) ==
  IF resp.kind = "conn_error"
  THEN Raise("ConnectionError")
  ELSE IF RaisesForStatus(resp)
       THEN Raise("HTTPError")
       ELSE LET data == ResponseJson(resp)
            IN  IF data.kind = "raise"
                THEN data
                ELSE IF data.value.t # "dict"
                     THEN Raise("AttributeError")
                     ELSE LET status == DictGet(data.value, "status", PyInt(0))
                          IN  Return(PyBool(status.t = "int" /\ status.n = 1))

SendsTagsAddAlways(tags) == TRUE

\* if not tags: return False, before any request
SendsTagsAdd(tags) == tags # << >>

add_tags_to_articleNoExcept(tags, resp) ==
  IF ~SendsTagsAdd(tags)
  THEN Return(PyBool(FALSE))
  ELSE TagsAddRequest(resp)

\* add_tags_to_article(token, article_id, tags)
add_tags_to_article(tags, resp) ==
  IF ~SendsTagsAdd(tags)
  THEN Return(PyBool(FALSE))
  ELSE LET r == TagsAddRequest(resp)
       IN  IF r.kind = "raise" THEN Return(PyBool(FALSE)) ELSE r

-----------------------------------------------------------------------------
(* What the services may answer *)

ArticleIds == << "1", "2", "3", "4" >>

Ids == { ArticleIds[i] : i \in 1..MaxArticles }

Title == << "resolved_title", PyStr("X") >>

\* An article record without tags key, with an empty and with a non-empty
\* tag collection
ArticleRecords ==
  { PyDict(<< Title >>),
    PyDict(<< Title, << "tags", PyDict(<< >>) >> >>),
    PyDict(<< Title, << "tags", PyDict(<< << "a", PyInt(1) >> >>) >> >>) }

\* The "list" of a fetch response: identifiers are the keys of a JSON object
ListMappings ==
  UNION { { m \in [1..n -> Ids \X ArticleRecords] :
              \A i, j \in 1..n : i # j => m[i][1] # m[j][1] } :
          n \in 0..MaxArticles }

XErrors == { PyNone, PyStr(""), PyStr("Invalid consumer key") }

OAuthStatuses == { 200, 401 }

CodeBodies ==
  { EmptyBody, BlankBody, GarbageBody,
    JsonBody(PyDict(<< >>)),
    JsonBody(PyDict(<< << "code", PyStr("c1") >> >>)),
    JsonBody(PyDict(<< << "code", PyStr("c2") >> >>)),
    JsonBody(PyList(<< >>)) }

TokenBodies ==
  { EmptyBody, GarbageBody,
    JsonBody(PyDict(<< << "username", PyStr("u") >> >>)),
    JsonBody(PyDict(<< << "access_token", PyStr("t1") >>,
                       << "username", PyStr("u") >> >>)) }

CodeResponses ==
  { ConnError } \cup
  { HttpResponse(st, x, b) : st \in OAuthStatuses, x \in XErrors, b \in CodeBodies }

TokenResponses ==
  { ConnError } \cup
  { HttpResponse(st, x, b) : st \in OAuthStatuses, x \in XErrors, b \in TokenBodies }

FetchBodies ==
  { EmptyBody, GarbageBody,
    JsonBody(PyNone),
    JsonBody(PyList(<< >>)),
    JsonBody(PyDict(<< << "error", PyStr("unauthorized") >> >>)),
    JsonBody(PyDict(<< << "status", PyInt(2) >>, << "list", PyList(<< >>) >> >>)) }
  \cup { JsonBody(PyDict(<< << "list", PyDict(m) >> >>)) : m \in ListMappings }

FetchResponses ==
  { ConnError } \cup
  { HttpResponse(st, PyNone, b) : st \in { 200, 401 }, b \in FetchBodies }

WriteBodies ==
  { GarbageBody,
    JsonBody(PyList(<< >>)),
    JsonBody(PyDict(<< >>)),
    JsonBody(PyDict(<< << "status", PyInt(0) >> >>)),
    JsonBody(PyDict(<< << "status", PyInt(1) >> >>)) }

WriteResponses ==
  { ConnError } \cup
  { HttpResponse(st, PyNone, b) : st \in { 200, 300, 500 }, b \in WriteBodies }

\* The replies "dev, made-up-tag, tech", "tv" and "Sure!", and a failure
MainLLMOutcomes ==
  { LLMException,
    LLMText(<<"d","e","v",","," ","m","a","d","e","-","u","p","-","t","a","g",
              ","," ","t","e","c","h">>),
    LLMText(<<"t","v">>),
    LLMText(<<"S","u","r","e","!">>) }

-----------------------------------------------------------------------------
(* main() *)

NoOutcome == [kind |-> "none", value |-> PyNone, exc |-> ""]

\* fn was called with arg, the service answered resp, post() gave post_out
\* (for the calls that go through post) and fn ended with out
Call(fn, arg, resp, post_out, out) ==
  [fn |-> fn, arg |-> arg, resp |-> resp, post |-> post_out, out |-> out]

NoCall == Call("none", << >>, NoResponse, NoOutcome, NoOutcome)

\* The keys of the JSON object a response carries
JsonKeys(resp) ==
  IF resp.body.text = "json" /\ resp.body.value.t = "dict"
  THEN { resp.body.value.items[i][1] : i \in 1..Len(resp.body.value.items) }
  ELSE { }

\* Something that left the process: ev with argument arg; for a request of
\* the handshake or the fetch, the status and keys of the answer
Effect(ev, arg, resp) ==
  [ev |-> ev, arg |-> arg, status |-> resp.status, keys |-> JsonKeys(resp)]

TagsIdle ==
  /\ tpc = "idle"
  /\ llm_response = LLMException
  /\ valid_tags = << >>

Init ==
  /\ pc = "request_code"
  /\ code = PyNone
  /\ access_token = PyNone
  /\ unread_articles = << >>
  /\ idx = 0
  /\ suggested_tags = << >>
  /\ effects = << >>
  /\ calls = << >>
  /\ last = NoCall
  /\ TagsIdle

\* authenticate_pocket: code = request_code()
RequestCode ==
  /\ pc = "request_code"
  /\ \E resp \in CodeResponses :
       LET out == request_code(resp)
       IN  /\ effects' = Append(effects, Effect("POST /v3/oauth/request", << >>, resp))
           /\ last' = Call("request_code", << >>, resp, post(resp), out)
           /\ IF out.kind = "raise"
              THEN pc' = "aborted" /\ code' = code
              ELSE pc' = "request_authorization" /\ code' = out.value
  /\ UNCHANGED << access_token, unread_articles, idx, suggested_tags, calls, tagVars >>

RequestAuthorizationNoWait ==
  /\ pc = "request_authorization"
  /\ effects' = Append(effects, Effect("webbrowser.open", AuthorizationUrl(code), NoResponse))
  /\ last' = NoCall
  /\ pc' = "request_access_token"
  /\ UNCHANGED << code, access_token, unread_articles, idx, suggested_tags, calls, tagVars >>

\* authenticate_pocket: request_authorization(code)
RequestAuthorization ==
  /\ pc = "request_authorization"
  /\ effects' = Append(effects, Effect("webbrowser.open", AuthorizationUrl(code), NoResponse))
  /\ last' = NoCall
  /\ pc' = "input"
  /\ UNCHANGED << code, access_token, unread_articles, idx, suggested_tags, calls, tagVars >>

\* authenticate_pocket: input("Press any key after authorizing app..."),
\* which returns on a line of input and raises EOFError on a closed stdin
Input ==
  /\ pc = "input"
  /\ \E answered \in BOOLEAN :
       IF answered
       THEN /\ effects' = Append(effects, Effect("input", << >>, NoResponse))
            /\ pc' = "request_access_token"
       ELSE /\ effects' = effects
            /\ pc' = "aborted"
  /\ last' = NoCall
  /\ UNCHANGED << code, access_token, unread_articles, idx, suggested_tags, calls, tagVars >>

\* authenticate_pocket: return request_access_token(code)
RequestAccessToken ==
  /\ pc = "request_access_token"
  /\ \E resp \in TokenResponses :
       LET out == request_access_token(resp)
       IN  /\ effects' = Append(effects, Effect("POST /v3/oauth/authorize", code, resp))
           /\ last' = Call("request_access_token", code, resp, post(resp), out)
           /\ IF out.kind = "raise"
              THEN pc' = "aborted" /\ access_token' = access_token
              ELSE pc' = "get_unread_articles" /\ access_token' = out.value
  /\ UNCHANGED << code, unread_articles, idx, suggested_tags, calls, tagVars >>

\* main: unread_articles = get_unread_articles(access_token), and the
\* if unread_articles / else that follows
GetUnreadArticles ==
  /\ pc = "get_unread_articles"
  /\ \E resp \in FetchResponses :
       LET out == get_unread_articles(resp)
       IN  /\ effects' = Append(effects, Effect("POST /v3/get", access_token, resp))
           /\ last' = Call("get_unread_articles", access_token, resp, NoOutcome, out)
           /\ IF out.kind = "raise"
              THEN pc' = "aborted" /\ UNCHANGED << unread_articles, idx >>
              ELSE /\ unread_articles' = out.value
                   /\ IF out.value # << >>
                      THEN pc' = "get_tag_suggestions" /\ idx' = 1
                      ELSE pc' = "done" /\ idx' = idx
  /\ UNCHANGED << code, access_token, suggested_tags, calls, tagVars >>

\* main: suggested_tags = get_tag_suggestions(article)
MainGetTagSuggestions ==
  /\ pc = "get_tag_suggestions"
  /\ \E llm \in MainLLMOutcomes :
       LET article_id == unread_articles[idx][1]
           out == get_tag_suggestions(llm)
       IN  /\ suggested_tags' = IF out.kind = "raise" THEN suggested_tags ELSE out.value
           /\ effects' = Append(effects,
                Effect("chat.completions.create", article_id, NoResponse))
           /\ calls' = Append(calls,
                [fn |-> "get_tag_suggestions", id |-> article_id,
                 tags |-> IF out.kind = "raise" THEN << >> ELSE out.value])
           /\ pc' = IF out.kind = "raise" THEN "aborted" ELSE "add_tags_to_article"
  /\ last' = NoCall
  /\ UNCHANGED << code, access_token, unread_articles, idx, tagVars >>

\* main: add_tags_to_article(access_token, article_id, suggested_tags), and
\* the for loop moving on
AddTagsToArticle ==
  /\ pc = "add_tags_to_article"
  /\ LET article_id == unread_articles[idx][1]
         arg == << access_token, article_id, suggested_tags >>
     IN  /\ calls' = Append(calls,
               [fn |-> "add_tags_to_article", id |-> article_id,
                tags |-> suggested_tags])
         /\ IF SendsTagsAdd(suggested_tags)
            THEN \E resp \in WriteResponses :
                   LET out == add_tags_to_article(suggested_tags, resp)
                   IN  /\ effects' = Append(effects,
                            Effect("POST /v3/send", arg, NoResponse))
                       /\ last' = Call("add_tags_to_article", arg, resp, NoOutcome, out)
                       /\ pc' = IF out.kind = "raise" THEN "aborted"
                                ELSE IF idx < Len(unread_articles)
                                     THEN "get_tag_suggestions" ELSE "done"
            ELSE LET out == add_tags_to_article(suggested_tags, NoResponse)
                 IN  /\ effects' = effects
                     /\ last' = Call("add_tags_to_article", arg, NoResponse, NoOutcome, out)
                     /\ pc' = IF out.kind = "raise" THEN "aborted"
                              ELSE IF idx < Len(unread_articles)
                                   THEN "get_tag_suggestions" ELSE "done"
  /\ idx' = idx + 1
  /\ UNCHANGED << code, access_token, unread_articles, suggested_tags, tagVars >>

Next ==
  \/ RequestCode
  \/ RequestAuthorization
  \/ Input
  \/ RequestAccessToken
  \/ GetUnreadArticles
  \/ MainGetTagSuggestions
  \/ AddTagsToArticle

Spec == Init /\ [][Next]_vars

-----------------------------------------------------------------------------
(* The classifier alone, over bounded LLM outcomes *)

\* What stands between two commas of a reply: a tag, a tag inside
\* whitespace, a tag in another case, nothing, prose that contains a tag
Pieces ==
  { <<"t","v">>,
    <<" ","d","e","v","\n">>,
    <<"T","V">>,
    << >>,
    <<"n","o"," ","t","v">> }

\* ','.join(parts)
RECURSIVE Join(_)
Join(parts) ==
  IF Len(parts) = 1
  THEN parts[1]
  ELSE parts[1] \o <<",">> \o Join(Tail(parts))

Replies ==
  { Join(parts) : parts \in UNION { [1..n -> Pieces] : n \in 1..MaxParts } }

LLMOutcomes ==
  { LLMException, LLMNoChoices, LLMNoContent } \cup { LLMText(r) : r \in Replies }

MainIdle ==
  /\ pc = "idle"
  /\ code = PyNone
  /\ access_token = PyNone
  /\ unread_articles = << >>
  /\ idx = 0
  /\ suggested_tags = << >>
  /\ effects = << >>
  /\ calls = << >>
  /\ last = NoCall

InitTags ==
  /\ MainIdle
  /\ tpc = "call"
  /\ llm_response \in LLMOutcomes
  /\ valid_tags = << >>

GetTagSuggestions ==
  /\ tpc = "call"
  /\ LET out == get_tag_suggestions(llm_response)
     IN  IF out.kind = "raise"
         THEN tpc' = "raised" /\ valid_tags' = valid_tags
         ELSE tpc' = "returned" /\ valid_tags' = out.value
  /\ UNCHANGED << llm_response, mainVars >>

NextTags == GetTagSuggestions

SpecTags == InitTags /\ [][NextTags]_vars

-----------------------------------------------------------------------------
(* Properties of the classifier *)

\* C1: whatever the LLM replies, and when the request fails, every element
\* of the list get_tag_suggestions returns is an entry of TAG_LIST; when the
\* request fails the list is empty.
C1_OnlyVocabulary ==
  /\ tpc # "raised"
  /\ tpc = "returned" =>
       /\ \A i \in 1..Len(valid_tags) :
            \E j \in 1..Len(TAG_LIST) : valid_tags[i] = TAG_LIST[j]
       /\ llm_response.kind # "text" => valid_tags = << >>

\* A reply with a tag, a foreign word and a tag in another case was
\* filtered down to a non-empty list.
C1_Witness ==
  /\ tpc = "returned"
  /\ llm_response.kind = "text"
  /\ Len(valid_tags) >= 1
  /\ Len(valid_tags) < Len(Split(llm_response.content))

\* C9: the list get_tag_suggestions returns for one article has between 0
\* and 5 entries.
C9_AtMostFive ==
  tpc = "returned" => Len(valid_tags) <= 5

-----------------------------------------------------------------------------
(* Properties of the run of main() *)

IsSuccessStatus(status) == 200 <= status /\ status <= 299

EffectsOf(ev) == { i \in 1..Len(effects) : effects[i].ev = ev }

WriterCalled == last.fn = "add_tags_to_article"

\* C2: add_tags_to_article with an empty tag list returns False and sends no
\* request, so that a run of main sends no tags_add request for an article
\* whose classifier result is empty.
C2_EmptyTagsNoRequest ==
  /\ (WriterCalled /\ last.arg[3] = << >>) =>
       /\ last.out.kind = "return"
       /\ ~last.out.value.b
       /\ last.resp = NoResponse
  /\ \A i \in EffectsOf("POST /v3/send") : effects[i].arg[3] # << >>
  /\ Cardinality(EffectsOf("POST /v3/send")) =
       Cardinality({ k \in 1..Len(calls) :
                       calls[k].fn = "add_tags_to_article" /\ calls[k].tags # << >> })

\* The writer has just been called with an empty classifier result.
C2_Witness ==
  /\ WriterCalled
  /\ last.arg[3] = << >>
  /\ calls[Len(calls)].fn = "add_tags_to_article"
  /\ calls[Len(calls)].tags = << >>

FetchCalled == last.fn = "get_unread_articles"

\* The response is a JSON object whose "list" is an object
HasListMapping(resp) ==
  /\ resp.kind = "http"
  /\ resp.body.text = "json"
  /\ resp.body.value.t = "dict"
  /\ \E i \in 1..Len(resp.body.value.items) :
       /\ resp.body.value.items[i][1] = "list"
       /\ resp.body.value.items[i][2].t = "dict"

ListOf(resp) ==
  LET top == resp.body.value.items
  IN  top[CHOOSE i \in 1..Len(top) : top[i][1] = "list"][2].items

\* The record has no tags key, or its tags are an empty collection
NoTags(article) ==
  \A i \in 1..Len(article.items) :
    article.items[i][1] = "tags" => Len(article.items[i][2].items) = 0

\* C3: from a response whose "list" maps identifiers to records,
\* get_unread_articles returns exactly the pairs whose tag collection is
\* absent or empty, in the order of the response.
C3_ExactlyUntagged ==
  (FetchCalled /\ HasListMapping(last.resp)) =>
    /\ last.out.kind = "return"
    /\ unread_articles = last.out.value
    /\ LET items == ListOf(last.resp)
           keep == { i \in 1..Len(items) : NoTags(items[i][2]) }
           nth(k) == CHOOSE i \in keep :
                       Cardinality({ j \in keep : j <= i }) = k
       IN  /\ Len(unread_articles) = Cardinality(keep)
           /\ \A k \in 1..Len(unread_articles) : unread_articles[k] = items[nth(k)]

\* The fetch answered a tagged article before an untagged one, and returned
\* the untagged one alone.
C3_Witness ==
  /\ FetchCalled
  /\ HasListMapping(last.resp)
  /\ Len(ListOf(last.resp)) = 2
  /\ ~NoTags(ListOf(last.resp)[1][2])
  /\ Len(unread_articles) = 1
  /\ unread_articles[1] = ListOf(last.resp)[2]

WriterSent == WriterCalled /\ last.arg[3] # << >>

\* The response carries a JSON object whose status is 1
StatusIsOne(resp) ==
  /\ resp.kind = "http"
  /\ resp.body.text = "json"
  /\ resp.body.value.t = "dict"
  /\ \E i \in 1..Len(resp.body.value.items) :
       /\ resp.body.value.items[i][1] = "status"
       /\ resp.body.value.items[i][2] = PyInt(1)

\* C4 as stated: for a non-empty tag list add_tags_to_article returns True
\* only if the request completed and the status field equals 1; for a status
\* of 0, a missing status, a non-2xx response or any exception it returns
\* False, and it never raises.
C4_Original ==
  WriterSent =>
    /\ last.out.kind = "return"
    /\ last.out.value.b => (last.resp.kind = "http" /\ StatusIsOne(last.resp))
    /\ (~StatusIsOne(last.resp) \/ ~IsSuccessStatus(last.resp.status))
         => ~last.out.value.b

\* C4, amended: for a non-empty tag list add_tags_to_article never raises,
\* and it returns True exactly when the request completed, the response is
\* not a 4xx or 5xx one, and its body is a JSON object whose status is 1.
C4_SuccessOnlyOnStatusOne ==
  WriterSent =>
    /\ last.out.kind = "return"
    /\ last.out.value.b <=>
         /\ last.resp.kind = "http"
         /\ ~(last.resp.status \in 400..599)
         /\ StatusIsOne(last.resp)

\* The request raised, the writer returned False and main went on.
C4_Witness ==
  /\ WriterSent
  /\ last.resp.kind = "conn_error"
  /\ last.out.kind = "return"
  /\ ~last.out.value.b
  /\ pc # "aborted"

\* C5 as stated: when the code request fails (the response is non-2xx or
\* has no code field), no browser window is opened and no token exchange
\* is sent in that run.
C5_Original ==
  (\E i \in EffectsOf("POST /v3/oauth/request") :
      ~IsSuccessStatus(effects[i].status) \/ "code" \notin effects[i].keys)
  => /\ EffectsOf("webbrowser.open") = { }
     /\ EffectsOf("POST /v3/oauth/authorize") = { }

C7_Original ==
  (\E i \in EffectsOf("POST /v3/get") : ~IsSuccessStatus(effects[i].status))
  => pc = "aborted" /\ calls = << >>

PostCalled == last.fn \in { "request_code", "request_access_token" }

\* C8 as stated: for every response that carries X-Error, post raises the
\* HTTP error; it returns a value only when the header is absent.
C8_Original ==
  (PostCalled /\ last.resp.kind = "http") =>
    /\ Truthy(last.resp.xerror) =>
         last.post.kind = "raise" /\ last.post.exc = "HTTPError"
    /\ last.post.kind = "return" => ~Truthy(last.resp.xerror)

HandshakeOrder ==
  << "POST /v3/oauth/request", "webbrowser.open", "input",
     "POST /v3/oauth/authorize", "POST /v3/get" >>

\* C10: code request, browser on the URL with that code, confirmation,
\* token exchange with the same code, fetch with the token obtained, in
\* this order and each at most once.
C10_HandshakeOrder ==
  /\ \A i \in 1..Len(effects) :
       IF i <= Len(HandshakeOrder)
       THEN effects[i].ev = HandshakeOrder[i]
       ELSE effects[i].ev \in { "chat.completions.create", "POST /v3/send" }
  /\ (last.fn = "request_code" /\ last.out.kind = "return") =>
       /\ last.resp.body.text = "json"
       /\ << "code", code >> \in
            { last.resp.body.value.items[i] :
                i \in 1..Len(last.resp.body.value.items) }
  /\ Len(effects) >= 2 => effects[2].arg.request_token = code
  /\ Len(effects) >= 4 => effects[4].arg = code
  /\ Len(effects) >= 5 =>
       /\ "access_token" \in effects[4].keys
       /\ access_token.t # "none"
       /\ effects[5].arg = access_token

\* The fetch was sent.
C10_Witness ==
  /\ Len(effects) >= 5
  /\ effects[5].ev = "POST /v3/get"
  /\ effects[4].arg = PyStr("c2")

====
